---- MODULE Spec2Model ----
(***************************************************************************)
(* Quota-and-session state machine of the Cashly AI relay server.          *)
(*                                                                         *)
(* The model follows the level-based server (src/unnamed/part_000): the    *)
(* data.json store, ensureUser, consumeQuota, pushSession and the HTTP     *)
(* handlers /api/chat, /api/history, /api/user/updateLevel and             *)
(* /api/admin/resetUsage, plus the daily cron sweep.  Every store          *)
(* operation is a readData step (snapshot of the file, followed by the     *)
(* synchronous computation on the snapshot) and, when the code persists,   *)
(* a writeData step that replaces the whole file by the snapshot.          *)
(*                                                                         *)
(* Optional JavaScript values (a missing property, undefined) are encoded  *)
(* as sequences: <<>> is undefined, <<v>> is the value v.  Numbers that    *)
(* may be Infinity are records [inf, n].                                   *)
(***************************************************************************)
EXTENDS Integers, Sequences, FiniteSets, TLC

(* ------------------------------ bounds --------------------------------- *)

\* Request slots (concurrently running handlers / callbacks).
NumProcs == 2

\* Calendar days the clock runs through (day numbers 1..MaxDay).
MaxDay == 2

\* Largest extraRequests value an entitlement update supplies.
MaxBonus == 2

\* Total number of session entries appended in one behaviour.
MaxAppends == 14

\* Requests (and cron callbacks) started in one behaviour of the
\* specifications whose handlers run at once.
MaxRequests == 3

(* --------------------------- program constants ------------------------- *)

MAX_SESSION_MSGS == 12

DefaultLevelId == 4

StarterPerDay == 5

ClaimerPerDay == 20

(* ------------------------------ encodings ------------------------------ *)

None == <<>>

Some(v) == <<v>>

Val(o) == o[1]

Fin(k) == [inf |-> FALSE, n |-> k]

Infinity == [inf |-> TRUE, n |-> 0]

Procs == 1..NumProcs

\* Sequential specifications run one request at a time, in slot 1.
SeqProcs == {1}

\* Users of the store: "guest" sends requests, "bob" is a user already on
\* file whose record and log no request addresses.
UserIds == {"guest", "bob"}

ReqUsers == {"guest"}

Days == 1..MaxDay

\* Level table.
LEVELS ==
  [i \in {2, 3, 4, 5, 6, 11} |->
     CASE i = 4  -> [requestsPerDay |-> Fin(StarterPerDay), model |-> "gpt-4.1-mini"]
       [] i = 5  -> [requestsPerDay |-> Fin(ClaimerPerDay), model |-> "gpt-4.1-mini"]
       [] i = 2  -> [requestsPerDay |-> Fin(ClaimerPerDay), model |-> "gpt-4.1-mini"]
       [] i = 6  -> [requestsPerDay |-> Infinity, model |-> "gpt-4.1"]
       [] i = 3  -> [requestsPerDay |-> Infinity, model |-> "gpt-4.1"]
       [] i = 11 -> [requestsPerDay |-> Infinity, model |-> "gpt-4.1"]]

\* LEVELS[user.levelId] || LEVELS[4]
LevelOf(user) ==
  IF user.levelId # None /\ Val(user.levelId) \in DOMAIN LEVELS
  THEN LEVELS[Val(user.levelId)]
  ELSE LEVELS[DefaultLevelId]

\* { users: {}, sessions: {} }
EmptyData == [users |-> [u \in UserIds |-> None], sessions |-> [u \in UserIds |-> <<>>]]

\* The record ensureUser creates.
NewUser(day) ==
  [levelId |-> Some(DefaultLevelId), extraRequests |-> Some(0),
   usage |-> Some([date |-> day, count |-> 0])]

\* The record updateLevel creates: { id: userId }.
MinimalUser == [levelId |-> None, extraRequests |-> None, usage |-> None]

(* --------------------------- store operations -------------------------- *)

\* Mutant of DateChanged: only a missing usage record counts as stale.
DateChanged_OnlyMissing(user, day) == user.usage = None

\* data.users[userId].usage?.date !== today
DateChanged(user, day) == user.usage = None \/ Val(user.usage).date # day

\* ensureUser on a snapshot: the data to persist and whether it is written.
EnsureUserData(data, u, day) ==
  IF data.users[u] = None
  THEN [data  |-> [data EXCEPT !.users[u] = Some(NewUser(day))],
        write |-> TRUE]
  ELSE LET user == Val(data.users[u]) IN
       IF DateChanged(user, day)
       THEN [data  |-> [data EXCEPT !.users[u] =
                          Some([user EXCEPT !.usage = Some([date |-> day, count |-> 0])])],
             write |-> TRUE]
       ELSE [data |-> data, write |-> FALSE]

QResult(ok, reason, remaining) == [ok |-> ok, reason |-> reason, remaining |-> remaining]

NoQ == QResult(FALSE, "", None)

\* Mutant of IsUnbounded: the Infinity case is not singled out.
IsUnbounded_Never(allowed) == FALSE

\* allowed === Infinity
IsUnbounded(allowed) == allowed = Infinity

\* Mutant of HasAllowance: off by one.
HasAllowance_Le(used, allowed) == used <= allowed.n

\* used < allowed
HasAllowance(used, allowed) == used < allowed.n

\* Mutant of Remaining: computed from the count read before the increment.
Remaining_Stale(allowed, used) == allowed.n - used

\* allowed - user.usage.count, after user.usage.count++
Remaining(allowed, used) == allowed.n - (used + 1)

\* Mutant of HasBonus: a balance of 0 still pays.
HasBonus_Ge(extra) == extra # None /\ Val(extra) >= 0

\* extra > 0, false of undefined
HasBonus(extra) == extra # None /\ Val(extra) > 0

\* consumeQuota on a snapshot: the data to persist, whether it is written,
\* the returned object and whether a TypeError was thrown instead.
ConsumeQuotaData(data, u) ==
  IF data.users[u] = None
  THEN [data |-> data, write |-> FALSE, threw |-> FALSE,
        q |-> QResult(FALSE, "user_not_found", None)]
  ELSE
    LET user    == Val(data.users[u])
        allowed == LevelOf(user).requestsPerDay
        extra   == user.extraRequests
    IN
    IF user.usage = None
    THEN [data |-> data, write |-> FALSE, threw |-> TRUE, q |-> NoQ]
    ELSE
      LET used == Val(user.usage).count IN
      IF IsUnbounded(allowed)
      THEN [data |-> data, write |-> FALSE, threw |-> FALSE,
            q |-> QResult(TRUE, "", Some(Infinity))]
      ELSE IF HasAllowance(used, allowed)
      THEN [data  |-> [data EXCEPT !.users[u] =
                         Some([user EXCEPT !.usage =
                                 Some([Val(user.usage) EXCEPT !.count = used + 1])])],
            write |-> TRUE, threw |-> FALSE,
            q |-> QResult(TRUE, "", Some(Fin(Remaining(allowed, used))))]
      ELSE IF HasBonus(extra)
      THEN [data  |-> [data EXCEPT !.users[u] =
                         Some([user EXCEPT !.extraRequests = Some(Val(extra) - 1)])],
            write |-> TRUE, threw |-> FALSE,
            q |-> QResult(TRUE, "", Some(Fin(0)))]
      ELSE [data |-> data, write |-> FALSE, threw |-> FALSE,
            q |-> QResult(FALSE, "quota_exhausted", None)]

\* Mutant of SliceLast: slice(0, k), the oldest entries are kept.
SliceLast_First(s, k) == IF Len(s) > k THEN SubSeq(s, 1, k) ELSE s

\* Array.prototype.slice(-k)
SliceLast(s, k) == IF Len(s) > k THEN SubSeq(s, Len(s) - k + 1, Len(s)) ELSE s

Entry(role, content) == [role |-> role, content |-> content]

\* pushSession on a snapshot.
PushSessionData(data, u, role, content) ==
  LET pushed == Append(data.sessions[u], Entry(role, content)) IN
  [data EXCEPT !.sessions[u] =
     IF Len(pushed) > MAX_SESSION_MSGS THEN SliceLast(pushed, MAX_SESSION_MSGS) ELSE pushed]

\* if (levelId) data.users[userId].levelId = levelId
NewLevel(user, levelId) ==
  IF levelId # None /\ Val(levelId) # 0 THEN levelId ELSE user.levelId

\* Mutant of NewBonus: an absent extraRequests is stored as 0.
NewBonus_Default(user, extraRequests) ==
  IF extraRequests # None THEN extraRequests ELSE Some(0)

\* if (typeof extraRequests === "number") data.users[userId].extraRequests = extraRequests
NewBonus(user, extraRequests) ==
  IF extraRequests # None THEN extraRequests ELSE user.extraRequests

\* The body of /api/user/updateLevel on a snapshot.
UpdateLevelData(data, u, levelId, extraRequests) ==
  LET user == IF data.users[u] = None THEN MinimalUser ELSE Val(data.users[u]) IN
  [data EXCEPT !.users[u] =
     Some([user EXCEPT !.levelId = NewLevel(user, levelId),
                       !.extraRequests = NewBonus(user, extraRequests)])]

\* Mutant of ResetUsageData: every user is put back to the record of a new
\* user.
ResetUsageData_Fresh(data, day) ==
  [data EXCEPT !.users =
     [u \in UserIds |-> IF data.users[u] = None THEN None ELSE Some(NewUser(day))]]

\* The forEach of the bulk reset (admin endpoint and cron sweep).
ResetUsageData(data, day) ==
  [data EXCEPT !.users =
     [u \in UserIds |->
        IF data.users[u] = None THEN None
        ELSE Some([Val(data.users[u]) EXCEPT !.usage = Some([date |-> day, count |-> 0])])]]

(* -------------------------------- state -------------------------------- *)

VARIABLES
  today,     \* the current calendar day, new Date().toISOString().slice(0, 10)
  file,      \* the content of data.json
  pc,        \* pc[p]: the await the handler in slot p is suspended at
  req,       \* req[p]: the request (or direct call) slot p serves; once it
             \* is answered, its kind and user only
  snap,      \* snap[p]: the data object slot p read and is about to write
  q,         \* q[p]: the object consumeQuota returned to slot p
  reply,     \* reply[p]: the completion text slot p received
  call,      \* call[p]: the completion call of slot p's request: "none",
             \* "pending", or how it settled
  atStart,   \* atStart[p]: the content of data.json when slot p's chat
             \* request arrived
  resp,      \* resp[p]: the response slot p sent last
  streak,    \* streak[u]: the consumeQuota calls made for u on a bounded
             \* level, one after another from count 0, since another
             \* operation last changed u's record
  appended,  \* appended[u]: every entry ever persisted for u, in order
  pushed,    \* pushed[p]: the roles of the entries slot p's chat request has
             \* persisted so far, in order
  gone,      \* gone[p]: the caller of slot p's chat request has disconnected
  sent,      \* the number of requests and cron callbacks started so far,
             \* counted up to MaxRequests
  lowered    \* lowered[u]: an updateLevel request has moved u to a level with
             \* a smaller daily allowance

vars == <<today, file, pc, req, snap, q, reply, call, atStart, resp, streak, appended,
          pushed, gone, sent, lowered>>

Roles == {"user", "assistant"}

PLACEHOLDER == "(keine Antwort)"

NoReq ==
  [kind |-> "none", userId |-> "guest", message |-> None, levelId |-> None,
   extraRequests |-> None, role |-> "user", content |-> ""]

Resp(kind, status, error, details, text, history) ==
  [kind |-> kind, status |-> status, error |-> error, details |-> details,
   reply |-> text,
   remaining |-> IF kind = "chat" /\ status = 200 THEN details.remaining ELSE None,
   history |-> history]

NoResp == Resp("none", 0, "", NoQ, None, <<>>)

\* A data.json left by an earlier run: bob is on file, guest is unknown.
BobUser ==
  [levelId |-> Some(5), extraRequests |-> Some(1),
   usage |-> Some([date |-> 1, count |-> ClaimerPerDay - 1])]

InitData ==
  [users    |-> [u \in UserIds |-> IF u = "bob" THEN Some(BobUser) ELSE None],
   sessions |-> [u \in UserIds |->
                   IF u = "bob" THEN <<Entry("user", "hello"), Entry("assistant", "re")>>
                   ELSE <<>>]]

Init ==
  /\ today = 1
  /\ file = InitData
  /\ pc = [p \in Procs |-> "idle"]
  /\ req = [p \in Procs |-> NoReq]
  /\ snap = [p \in Procs |-> EmptyData]
  /\ q = [p \in Procs |-> NoQ]
  /\ reply = [p \in Procs |-> None]
  /\ call = [p \in Procs |-> "none"]
  /\ atStart = [p \in Procs |-> EmptyData]
  /\ resp = [p \in Procs |-> NoResp]
  /\ streak = [u \in UserIds |-> <<>>]
  /\ appended = InitData.sessions
  /\ pushed = [p \in Procs |-> <<>>]
  /\ gone = [p \in Procs |-> FALSE]
  /\ sent = 0
  /\ lowered = [u \in UserIds |-> FALSE]

(* ------------------------------ ghost state ---------------------------- *)

\* A write by an operation other than consumeQuota ends the streak of every
\* user whose record it changed.
BreakStreaks(old, new) ==
  [u \in UserIds |-> IF new.users[u] # old.users[u] THEN <<>> ELSE streak[u]]

\* The outcome of a consumeQuota call on a bounded level is recorded while
\* the streak runs: it starts at count 0 and stops at the first refusal.
RecordStreak(r, data, c) ==
  IF data.users[r.userId] = None \/ c.threw THEN streak
  ELSE
    LET u    == r.userId
        user == Val(data.users[u])
        e    == [used |-> Val(user.usage).count, extra |-> user.extraRequests,
                 allowed |-> LevelOf(user).requestsPerDay.n, q |-> c.q]
    IN IF /\ ~LevelOf(user).requestsPerDay.inf
          /\ \/ streak[u] = <<>> /\ e.used = 0
             \/ streak[u] # <<>> /\ streak[u][Len(streak[u])].q.ok
       THEN [streak EXCEPT ![u] = Append(@, e)]
       ELSE streak

(* ------------------------- handler-local state ------------------------- *)

\* Slot p goes on to the await `stage`, holding request r, the data object d
\* and the consumeQuota result res.
Goto(p, stage, r, d, res) ==
  /\ pc' = [pc EXCEPT ![p] = stage]
  /\ req' = [req EXCEPT ![p] = r]
  /\ snap' = [snap EXCEPT ![p] = d]
  /\ q' = [q EXCEPT ![p] = res]
  /\ resp' = [resp EXCEPT ![p] = NoResp]

\* Slot p responds to the request of user u (or returns) and its locals go
\* out of scope; of the request, its kind and user stay on record.
Finish(p, u, r) ==
  /\ pc' = [pc EXCEPT ![p] = "idle"]
  /\ req' = [req EXCEPT ![p] = [NoReq EXCEPT !.kind = r.kind, !.userId = u]]
  /\ snap' = [snap EXCEPT ![p] = EmptyData]
  /\ q' = [q EXCEPT ![p] = NoQ]
  /\ resp' = [resp EXCEPT ![p] = r]

\* A request arrives at idle slot p: nothing of the previous one is left.
Arrive(p, d) ==
  /\ reply' = [reply EXCEPT ![p] = None]
  /\ call' = [call EXCEPT ![p] = "none"]
  /\ atStart' = [atStart EXCEPT ![p] = d]
  /\ pushed' = [pushed EXCEPT ![p] = <<>>]
  /\ gone' = [gone EXCEPT ![p] = FALSE]
  /\ sent' = IF sent < MaxRequests THEN sent + 1 ELSE sent

Ok(kind) == Resp(kind, 200, "", NoQ, None, <<>>)

ServerError(kind) == Resp(kind, 500, "server_error", NoQ, None, <<>>)

(* ----------------------------- ensureUser ------------------------------ *)

\* What follows ensureUser in the chat handler: consumeQuota.
AfterEnsure(p, r) == Goto(p, "cq_read", r, EmptyData, NoQ)

\* ensureUser: readData and the decision.
EnsureUserRead(p, r) ==
  LET e == EnsureUserData(file, r.userId, today) IN
  /\ IF e.write THEN Goto(p, "eu_write", r, e.data, NoQ) ELSE AfterEnsure(p, r)
  /\ UNCHANGED <<today, file, streak, appended, lowered>>

\* ensureUser: writeData.
EnsureUserWrite(p) ==
  /\ pc[p] = "eu_write"
  /\ file' = snap[p]
  /\ streak' = BreakStreaks(file, snap[p])
  /\ AfterEnsure(p, req[p])
  /\ UNCHANGED <<today, reply, call, atStart, pushed, gone, appended, sent, lowered>>

(* ----------------------------- consumeQuota ---------------------------- *)

\* Mutant of QuotaPassed: the result of consumeQuota is not looked at.
QuotaPassed_Always(res) == TRUE

\* if (!q.ok) return res.status(429)
QuotaPassed(res) == res.ok

\* What follows consumeQuota returning res in the chat handler: the 429, or
\* the readData for the session.
AfterConsume(p, r, res) ==
  IF QuotaPassed(res) THEN Goto(p, "asm_read", r, EmptyData, res)
  ELSE Finish(p, r.userId, Resp("chat", 429, "Quota exhausted", res, None, <<>>))

\* consumeQuota: readData and the decision.
ConsumeQuotaRead(p, r) ==
  LET c == ConsumeQuotaData(file, r.userId) IN
  /\ streak' = RecordStreak(r, file, c)
  /\ IF c.threw THEN Finish(p, r.userId, ServerError(r.kind))
     ELSE IF c.write THEN Goto(p, "cq_write", r, c.data, c.q)
     ELSE AfterConsume(p, r, c.q)
  /\ UNCHANGED <<today, file, appended>>

\* consumeQuota: writeData.
ConsumeQuotaWrite(p) ==
  /\ pc[p] = "cq_write"
  /\ file' = snap[p]
  /\ AfterConsume(p, req[p], q[p])
  /\ UNCHANGED <<today, reply, call, atStart, pushed, gone, streak, appended, sent, lowered>>

(* ----------------------------- pushSession ----------------------------- *)

\* Mutant of PushRole: the chat handler stores the reply first.
PushRole_Swapped(p) ==
  CASE pc[p] \in {"ps1_read", "ps1_write"} -> "assistant"
    [] pc[p] \in {"ps2_read", "ps2_write"} -> "user"
    [] OTHER -> req[p].role

\* The entry a pushSession call of slot p appends.
PushRole(p) ==
  CASE pc[p] \in {"ps1_read", "ps1_write"} -> "user"
    [] pc[p] \in {"ps2_read", "ps2_write"} -> "assistant"
    [] OTHER -> req[p].role

PushContent(p) ==
  CASE pc[p] \in {"ps1_read", "ps1_write"} -> Val(req[p].message)
    [] pc[p] \in {"ps2_read", "ps2_write"} -> Val(reply[p])
    [] OTHER -> req[p].content

\* pushSession: readData, push and slice (the two calls of the chat handler).
PushSessionRead(p) ==
  /\ pc[p] \in {"ps1_read", "ps2_read"}
  /\ Goto(p, IF pc[p] = "ps1_read" THEN "ps1_write" ELSE "ps2_write", req[p],
          PushSessionData(file, req[p].userId, PushRole(p), PushContent(p)), q[p])
  /\ UNCHANGED <<today, file, reply, call, atStart, pushed, gone, streak, appended, sent, lowered>>

\* pushSession: writeData; after the second push the chat handler responds.
PushSessionWrite(p) ==
  /\ pc[p] \in {"ps_write", "ps1_write", "ps2_write"}
  /\ file' = snap[p]
  /\ streak' = BreakStreaks(file, snap[p])
  /\ appended' = [appended EXCEPT ![req[p].userId] =
                    Append(@, Entry(PushRole(p), PushContent(p)))]
  /\ CASE pc[p] = "ps_write"  -> Finish(p, req[p].userId, Ok("pushSession")) /\ UNCHANGED reply
       [] pc[p] = "ps1_write" -> Goto(p, "ps2_read", req[p], EmptyData, q[p])
                                 /\ UNCHANGED reply
       [] pc[p] = "ps2_write" -> /\ Finish(p, req[p].userId, Resp("chat", 200, "", q[p], reply[p], <<>>))
                                 /\ reply' = [reply EXCEPT ![p] = None]
  /\ pushed' = [pushed EXCEPT ![p] =
                  IF req[p].kind = "chat" THEN Append(@, PushRole(p)) ELSE @]
  /\ UNCHANGED <<today, call, atStart, gone, sent, lowered>>

\* A direct call of pushSession(userId, role, content), up to its write.
StartPushSession(p, u, role, content) ==
  /\ pc[p] = "idle"
  /\ Len(appended[u]) < MaxAppends
  /\ Goto(p, "ps_write",
          [NoReq EXCEPT !.kind = "pushSession", !.userId = u, !.role = role,
                        !.content = content],
          PushSessionData(file, u, role, content), NoQ)
  /\ Arrive(p, EmptyData)
  /\ UNCHANGED <<today, file, streak, appended, lowered>>

(* ------------------------------ /api/chat ------------------------------ *)

\* Mutant of ValidMessage: only a missing message is refused.
ValidMessage_NotMissing(message) == message # None

\* if (!message) return res.status(400)
ValidMessage(message) == message # None /\ Val(message) # ""

\* POST /api/chat arrives: destructuring with the "guest" default, the
\* message check, then ensureUser up to its write.
StartChat(p, userId, message) ==
  LET u == IF userId = None THEN "guest" ELSE Val(userId)
      r == [NoReq EXCEPT !.kind = "chat", !.userId = u, !.message = message]
  IN /\ pc[p] = "idle"
     /\ Arrive(p, file)
     /\ IF ~ValidMessage(message)
        THEN /\ Finish(p, u, Resp("chat", 400, "message fehlt", NoQ, None, <<>>))
             /\ UNCHANGED <<today, file, streak, appended, lowered>>
        ELSE EnsureUserRead(p, r)

\* /api/chat: consumeQuota, up to its write.
ChatConsumeQuota(p) ==
  /\ pc[p] = "cq_read"
  /\ ConsumeQuotaRead(p, req[p])
  /\ UNCHANGED <<reply, call, atStart, pushed, gone, sent, lowered>>

\* /api/chat: readData for the session and the level, then axios.post is
\* issued.
AssembleRead(p) ==
  /\ pc[p] = "asm_read"
  /\ IF file.users[req[p].userId] = None
     THEN /\ Finish(p, req[p].userId, ServerError("chat"))
          /\ UNCHANGED call
     ELSE /\ Goto(p, "upstream", req[p], EmptyData, q[p])
          /\ call' = [call EXCEPT ![p] = "pending"]
  /\ UNCHANGED <<today, file, reply, atStart, pushed, gone, streak, appended, sent, lowered>>

\* Mutant of Rejected: a failed call is taken for a body with no text.
Rejected_Never(outcome) == FALSE

\* await axios.post(...) throws into the catch block.
Rejected(outcome) == outcome = "fail"

\* openaiRes.data.choices?.[0]?.message?.content || "(keine Antwort)"
ReplyText(outcome) == IF outcome = "text" THEN "re" ELSE PLACEHOLDER

\* /api/chat: the completion call settles: a text, a body with no text, or
\* a rejection (transport error, status, timeout).
Upstream(p, outcome) ==
  /\ pc[p] = "upstream"
  /\ call' = [call EXCEPT ![p] = outcome]
  /\ IF Rejected(outcome)
     THEN /\ Finish(p, req[p].userId, ServerError("chat"))
          /\ UNCHANGED reply
     ELSE /\ Goto(p, "ps1_read", req[p], EmptyData, q[p])
          /\ reply' = [reply EXCEPT ![p] = Some(ReplyText(outcome))]
  /\ UNCHANGED <<today, file, atStart, pushed, gone, streak, appended, sent, lowered>>

(* ------------------------ /api/user/updateLevel ------------------------ *)

\* The update moves a user on file to a level with a smaller allowance.
Lowers(data, u, levelId) ==
  /\ data.users[u] # None
  /\ LET old == LevelOf(Val(data.users[u])).requestsPerDay
         new == LevelOf([Val(data.users[u]) EXCEPT
                           !.levelId = NewLevel(Val(data.users[u]), levelId)]).requestsPerDay
     IN ~new.inf /\ (old.inf \/ new.n < old.n)

\* POST /api/user/updateLevel arrives: the userId check, readData and the
\* upsert.
StartUpdateLevel(p, userId, levelId, extraRequests) ==
  /\ pc[p] = "idle"
  /\ Arrive(p, EmptyData)
  /\ IF userId = None
     THEN Finish(p, NoReq.userId, Resp("updateLevel", 400, "userId fehlt", NoQ, None, <<>>))
     ELSE Goto(p, "ul_write",
               [NoReq EXCEPT !.kind = "updateLevel", !.userId = Val(userId),
                             !.levelId = levelId, !.extraRequests = extraRequests],
               UpdateLevelData(file, Val(userId), levelId, extraRequests), NoQ)
  /\ lowered' = IF userId # None /\ Lowers(file, Val(userId), levelId)
                THEN [lowered EXCEPT ![Val(userId)] = TRUE] ELSE lowered
  /\ UNCHANGED <<today, file, streak, appended>>

\* /api/user/updateLevel: writeData and the response.
UpdateLevelWrite(p) ==
  /\ pc[p] = "ul_write"
  /\ file' = snap[p]
  /\ streak' = BreakStreaks(file, snap[p])
  /\ Finish(p, req[p].userId, Ok("updateLevel"))
  /\ UNCHANGED <<today, reply, call, atStart, pushed, gone, appended, sent, lowered>>

(* ------------------------------ bulk reset ----------------------------- *)

\* POST /api/admin/resetUsage arrives: the admin key check, readData and
\* the forEach.
StartResetUsage(p, keyOk) ==
  /\ pc[p] = "idle"
  /\ Arrive(p, EmptyData)
  /\ IF keyOk
     THEN Goto(p, "ru_write", [NoReq EXCEPT !.kind = "resetUsage"],
               ResetUsageData(file, today), NoQ)
     ELSE Finish(p, NoReq.userId, Resp("resetUsage", 403, "forbidden", NoQ, None, <<>>))
  /\ UNCHANGED <<today, file, streak, appended, lowered>>

\* The cron callback of midnight fires: readData and the forEach.
StartCron(p) ==
  /\ pc[p] = "idle"
  /\ Arrive(p, EmptyData)
  /\ Goto(p, "ru_write", [NoReq EXCEPT !.kind = "cron"], ResetUsageData(file, today), NoQ)
  /\ UNCHANGED <<today, file, streak, appended, lowered>>

\* Bulk reset: writeData.
ResetUsageWrite(p) ==
  /\ pc[p] = "ru_write"
  /\ file' = snap[p]
  /\ streak' = BreakStreaks(file, snap[p])
  /\ Finish(p, req[p].userId, Ok(req[p].kind))
  /\ UNCHANGED <<today, reply, call, atStart, pushed, gone, appended, sent, lowered>>

(* ----------------------------- /api/history ---------------------------- *)

\* GET /api/history: the userId check, readData and the response.
History(p, userId) ==
  /\ pc[p] = "idle"
  /\ Arrive(p, EmptyData)
  /\ IF userId = None
     THEN Finish(p, NoReq.userId, Resp("history", 400, "userId fehlt", NoQ, None, <<>>))
     ELSE Finish(p, Val(userId), Resp("history", 200, "", NoQ, None, file.sessions[Val(userId)]))
  /\ UNCHANGED <<today, file, streak, appended, lowered>>

(* ------------------------------ environment ---------------------------- *)

\* The caller of slot p's chat request closes the connection while the
\* completion call is pending.  The handler registers no listener for it.
Disconnect(p) ==
  /\ pc[p] = "upstream"
  /\ ~gone[p]
  /\ gone' = [gone EXCEPT ![p] = TRUE]
  /\ UNCHANGED <<today, file, pc, req, snap, q, reply, call, atStart, resp, streak,
                 appended, pushed, sent, lowered>>

\* The server process exits while handlers are suspended at an await: they
\* never resume and send no response.  data.json stays as last written.
Crash ==
  /\ \E p \in Procs : pc[p] # "idle"
  /\ pc' = [p \in Procs |-> "idle"]
  /\ req' = [p \in Procs |-> [NoReq EXCEPT !.kind = req[p].kind, !.userId = req[p].userId]]
  /\ snap' = [p \in Procs |-> EmptyData]
  /\ q' = [p \in Procs |-> NoQ]
  /\ reply' = [p \in Procs |-> None]
  /\ UNCHANGED <<today, file, call, atStart, resp, streak, appended, pushed, gone, sent, lowered>>

(* -------------------------------- clock -------------------------------- *)

\* Midnight (UTC) passes.
Tick ==
  /\ today < MaxDay
  /\ today' = today + 1
  /\ UNCHANGED <<file, pc, req, snap, q, reply, call, atStart, pushed, gone, resp, streak, appended, sent, lowered>>

(* --------------------------- request inputs ---------------------------- *)

\* userId as sent: absent or a user of ReqUsers.
UserIdInputs == {None} \cup {Some(u) : u \in ReqUsers}

\* message as sent: absent, empty, or a text.
MessageInputs == {None, Some(""), Some("hi")}

\* levelId as sent: absent, 0, a bounded level, an unbounded one.
LevelInputs == {None, Some(0), Some(5), Some(6)}

\* extraRequests as sent: absent or a number.
ExtraInputs == {None} \cup {Some(n) : n \in 0..MaxBonus}

\* How the completion call settles.
UpstreamOutcomes == {"text", "empty", "fail"}

(* ---------------------------- specifications --------------------------- *)

\* The user/quota store under every entitlement: chat requests of one text
\* against a provider that is down, entitlement updates, bulk resets and the
\* passing of days.  No session entry is written.
QuotaNext ==
  \/ \E p \in SeqProcs, u \in UserIdInputs : StartChat(p, u, Some("hi"))
  \/ \E p \in SeqProcs : EnsureUserWrite(p)
  \/ \E p \in SeqProcs : ChatConsumeQuota(p)
  \/ \E p \in SeqProcs : ConsumeQuotaWrite(p)
  \/ \E p \in SeqProcs : AssembleRead(p)
  \/ \E p \in SeqProcs : Upstream(p, "fail")
  \/ \E p \in SeqProcs, u \in UserIdInputs, l \in LevelInputs, e \in ExtraInputs :
       StartUpdateLevel(p, u, l, e)
  \/ \E p \in SeqProcs : UpdateLevelWrite(p)
  \/ \E p \in SeqProcs, k \in BOOLEAN : StartResetUsage(p, k)
  \/ \E p \in SeqProcs : StartCron(p)
  \/ \E p \in SeqProcs : ResetUsageWrite(p)
  \/ Tick

SpecQuota == Init /\ [][QuotaNext]_vars

\* The chat handler end to end on one day: chat requests with every kind of
\* message and every provider outcome, history reads, and updates of the
\* bonus balance.  A request is accepted while the user's exchanges fit
\* MaxAppends.
ChatNext ==
  \/ \E p \in SeqProcs, u \in UserIdInputs, m \in MessageInputs :
       /\ Len(appended[IF u = None THEN "guest" ELSE Val(u)]) + 2 <= MaxAppends
       /\ StartChat(p, u, m)
  \/ \E p \in SeqProcs : EnsureUserWrite(p)
  \/ \E p \in SeqProcs : ChatConsumeQuota(p)
  \/ \E p \in SeqProcs : ConsumeQuotaWrite(p)
  \/ \E p \in SeqProcs : AssembleRead(p)
  \/ \E p \in SeqProcs, o \in UpstreamOutcomes : Upstream(p, o)
  \/ \E p \in SeqProcs : PushSessionRead(p)
  \/ \E p \in SeqProcs : PushSessionWrite(p)
  \/ \E p \in SeqProcs, u \in UserIdInputs : History(p, u)
  \/ \E p \in SeqProcs, u \in UserIdInputs, e \in ExtraInputs :
       StartUpdateLevel(p, u, None, e)
  \/ \E p \in SeqProcs : UpdateLevelWrite(p)

SpecChat == Init /\ [][ChatNext]_vars

\* The session store alone: pushSession invoked one at a time with either
\* role, and history reads.
SessionNext ==
  \/ \E p \in SeqProcs, u \in ReqUsers, r \in Roles : StartPushSession(p, u, r, "hi")
  \/ \E p \in SeqProcs : PushSessionWrite(p)
  \/ \E p \in SeqProcs, u \in UserIdInputs : History(p, u)

SpecSession == Init /\ [][SessionNext]_vars

\* Another request or cron callback may start.
MaySend == sent < MaxRequests

\* Every store operation with handlers running at once, on one day: slot 1
\* serves chat requests of either user against a provider that answers, the
\* other slots serve entitlement updates (raising or lowering the level,
\* setting the bonus to any number) and bulk resets; MaxRequests of them
\* start.
ChatProcs == {1}

AdminProcs == Procs \ ChatProcs

RaceLevelInputs == {None, Some(4), Some(5)}

RaceExtraInputs == {None, Some(-1), Some(1)}

RaceNext ==
  \/ \E p \in ChatProcs, u \in UserIds : MaySend /\ StartChat(p, Some(u), Some("hi"))
  \/ \E p \in Procs : EnsureUserWrite(p)
  \/ \E p \in Procs : ChatConsumeQuota(p)
  \/ \E p \in Procs : ConsumeQuotaWrite(p)
  \/ \E p \in Procs : AssembleRead(p)
  \/ \E p \in Procs : Upstream(p, "text")
  \/ \E p \in Procs : PushSessionRead(p)
  \/ \E p \in Procs : PushSessionWrite(p)
  \/ \E p \in AdminProcs, u \in UserIds, l \in RaceLevelInputs, e \in RaceExtraInputs :
       MaySend /\ StartUpdateLevel(p, Some(u), l, e)
  \/ \E p \in Procs : UpdateLevelWrite(p)
  \/ \E p \in AdminProcs : MaySend /\ StartResetUsage(p, TRUE)
  \/ \E p \in AdminProcs : MaySend /\ StartCron(p)
  \/ \E p \in Procs : ResetUsageWrite(p)

SpecRace == Init /\ [][RaceNext]_vars

\* Live traffic alone, on one day: MaxRequests chat requests of the same user
\* and history reads, served by all slots at once against a provider that
\* answers, and the server process going down and coming back.  No
\* entitlement update, no bulk reset.
TrafficNext ==
  \/ \E p \in Procs, u \in ReqUsers : MaySend /\ StartChat(p, Some(u), Some("hi"))
  \/ \E p \in Procs : EnsureUserWrite(p)
  \/ \E p \in Procs : ChatConsumeQuota(p)
  \/ \E p \in Procs : ConsumeQuotaWrite(p)
  \/ \E p \in Procs : AssembleRead(p)
  \/ \E p \in Procs : Upstream(p, "text")
  \/ \E p \in Procs : PushSessionRead(p)
  \/ \E p \in Procs : PushSessionWrite(p)
  \/ \E p \in Procs, u \in ReqUsers : MaySend /\ History(p, Some(u))
  \/ Crash

SpecTraffic == Init /\ [][TrafficNext]_vars

\* The continuation of slot p's handler that is due: a store read or write
\* that completes, or the completion call settling.
HandlerStep(p) ==
  \/ EnsureUserWrite(p)
  \/ ChatConsumeQuota(p)
  \/ ConsumeQuotaWrite(p)
  \/ AssembleRead(p)
  \/ \E o \in UpstreamOutcomes : Upstream(p, o)
  \/ PushSessionRead(p)
  \/ PushSessionWrite(p)

\* Chat requests served one at a time, with any message, for either user,
\* against a provider that answers, answers without text, or fails or times
\* out; the caller may close the connection while the call is pending.
LiveNext ==
  \/ \E p \in SeqProcs, u \in UserIds, m \in MessageInputs :
       MaySend /\ StartChat(p, Some(u), m)
  \/ \E p \in SeqProcs : EnsureUserWrite(p)
  \/ \E p \in SeqProcs : ChatConsumeQuota(p)
  \/ \E p \in SeqProcs : ConsumeQuotaWrite(p)
  \/ \E p \in SeqProcs : AssembleRead(p)
  \/ \E p \in SeqProcs, o \in UpstreamOutcomes : Upstream(p, o)
  \/ \E p \in SeqProcs : PushSessionRead(p)
  \/ \E p \in SeqProcs : PushSessionWrite(p)
  \/ \E p \in SeqProcs : Disconnect(p)

\* The event loop resumes every handler whose await has settled, the file
\* system completes reads and writes, and axios settles the completion call
\* after 120 s at the latest.
SpecLive == Init /\ [][LiveNext]_vars /\ \A p \in SeqProcs : WF_vars(HandlerStep(p))

(* ------------------------------- claims -------------------------------- *)

\* The record of user u on file (u is on file).
User(u) == Val(file.users[u])

NoWritePending == \A p \in Procs : pc[p] # "cq_write"

Min(a, b) == IF a < b THEN a ELSE b

\* C1: on a bounded level with allowance A and bonus 0, of the consumeQuota
\* calls made one after another from count 0 exactly the first A succeed,
\* the i-th reporting remaining A - i, and call A + 1 is refused with
\* quota_exhausted.
C1_ExactlyAllowance ==
  \A u \in UserIds :
    LET s == streak[u] IN
    (s # <<>> /\ s[1].extra = Some(0)) =>
      LET A == s[1].allowed IN
      /\ Len(s) <= A + 1
      /\ \A i \in 1..Len(s) :
           /\ i <= A => /\ s[i].q.ok
                        /\ s[i].used = i - 1
                        /\ s[i].q.remaining = Some(Fin(A - i))
           /\ i = A + 1 => /\ ~s[i].q.ok
                           /\ s[i].q.reason = "quota_exhausted"

\* Witness of C1: 20 calls on the allowance of 20 have succeeded and call 21
\* was refused.
C1_Witness ==
  \E u \in UserIds :
    /\ Len(streak[u]) = ClaimerPerDay + 1
    /\ streak[u][1].allowed = ClaimerPerDay
    /\ streak[u][1].extra = Some(0)
    /\ streak[u][ClaimerPerDay].q.remaining = Some(Fin(0))
    /\ ~streak[u][ClaimerPerDay + 1].q.ok

\* C2: with allowance A and bonus B > 0 the allowance is used first: calls
\* 1..A succeed with the bonus untouched, calls A+1..A+B succeed with
\* remaining 0, each taking one bonus request and leaving count at A, and
\* call A+B+1 is refused.
C2_AllowanceThenBonus ==
  \A u \in UserIds :
    LET s == streak[u] IN
    (s # <<>> /\ s[1].extra # None /\ Val(s[1].extra) > 0) =>
      LET A == s[1].allowed
          B == Val(s[1].extra)
      IN
      /\ Len(s) <= A + B + 1
      /\ \A i \in 1..Len(s) :
           /\ i <= A => /\ s[i].q.ok
                        /\ s[i].used = i - 1
                        /\ s[i].extra = Some(B)
           /\ (A < i /\ i <= A + B) => /\ s[i].q.ok
                                      /\ s[i].q.remaining = Some(Fin(0))
                                      /\ s[i].used = A
                                      /\ s[i].extra = Some(B - (i - A - 1))
           /\ i = A + B + 1 => ~s[i].q.ok
      /\ NoWritePending =>
           /\ Val(User(u).usage).count = Min(Len(s), A)
           /\ User(u).extraRequests =
                Some(B - (IF Len(s) <= A THEN 0 ELSE Min(Len(s), A + B) - A))

\* Witness of C2: allowance and bonus are both used up and one more call
\* was refused.
C2_Witness ==
  \E u \in UserIds :
    LET s == streak[u] IN
    /\ s # <<>>
    /\ s[1].extra = Some(MaxBonus)
    /\ Len(s) = s[1].allowed + MaxBonus + 1
    /\ ~s[Len(s)].q.ok
    /\ User(u).extraRequests = Some(0)

\* User u is on file with an unbounded level.
UnboundedUser(u) ==
  file.users[u] # None /\ LevelOf(User(u)).requestsPerDay.inf

\* C3: a consumeQuota call for a user on an unbounded level succeeds and
\* changes neither the user's usage nor the bonus balance.
C3_UnboundedNeverConsumes ==
  [][\A p \in Procs :
       (/\ pc[p] \in {"cq_read", "cq_write"}
        /\ pc'[p] # pc[p]
        /\ UnboundedUser(req[p].userId))
       => /\ pc'[p] = "asm_read"
          /\ q'[p].ok
          /\ file' = file]_vars

\* Witness of C3: a request of an unbounded user passed consumeQuota with the
\* count above the default allowance and a positive bonus on file.
C3_Witness ==
  \E p \in Procs :
    /\ pc[p] = "asm_read"
    /\ UnboundedUser(req[p].userId)
    /\ q[p] = QResult(TRUE, "", Some(Infinity))
    /\ Val(User(req[p].userId).usage).count > StarterPerDay
    /\ User(req[p].userId).extraRequests = Some(MaxBonus)

\* A chat request for u arrives at slot p in this step and passes the
\* message check: ensureUser runs.
EnsureRuns(p, u) ==
  /\ pc[p] = "idle"
  /\ pc'[p] \in {"eu_write", "cq_read"}
  /\ req'[p].userId = u

\* C8: ensureUser on an existing user whose stored date differs from today
\* persists usage {today, 0} and leaves level and bonus as they were; with
\* the stored date equal to today it persists nothing.
C8_DailyRollover ==
  [][\A p \in Procs, u \in UserIds :
       /\ (EnsureRuns(p, u) /\ file.users[u] # None) =>
            IF User(u).usage # None /\ Val(User(u).usage).date = today
            THEN pc'[p] = "cq_read" /\ file' = file
            ELSE /\ pc'[p] = "eu_write"
                 /\ snap'[p] = [file EXCEPT !.users[u] =
                                  Some([User(u) EXCEPT !.usage =
                                          Some([date |-> today, count |-> 0])])]
       /\ (pc[p] = "eu_write" /\ pc'[p] # "eu_write" /\ req[p].userId = u
           /\ file.users[u] # None) =>
            /\ file' = snap[p]
            /\ Val(file'.users[u]).usage # None
            /\ Val(Val(file'.users[u]).usage).count = 0
            /\ Val(file'.users[u]).levelId = User(u).levelId
            /\ Val(file'.users[u]).extraRequests = User(u).extraRequests]_vars

\* Witness of C8: ensureUser is about to persist the rollover of a user who
\* has used requests on an earlier day.
C8_Witness ==
  \E p \in Procs :
    LET u == req[p].userId IN
    /\ pc[p] = "eu_write"
    /\ file.users[u] # None
    /\ User(u).usage # None
    /\ Val(User(u).usage).date < today
    /\ Val(User(u).usage).count > 0
    /\ User(u).extraRequests = Some(MaxBonus)
    /\ Val(Val(snap[p].users[u]).usage) = [date |-> today, count |-> 0]

\* C10: updateLevel for an existing user leaves the bonus balance as it was
\* when no extraRequests number is sent, and stores the number sent
\* otherwise.
C10_BonusKeptUnlessSupplied ==
  [][\A p \in Procs :
       (pc[p] = "ul_write" /\ pc'[p] # "ul_write" /\ file.users[req[p].userId] # None)
       => LET u == req[p].userId IN
          /\ file'.users[u] # None
          /\ Val(file'.users[u]).extraRequests =
               IF req[p].extraRequests = None THEN User(u).extraRequests
               ELSE req[p].extraRequests]_vars

\* Witness of C10: an update that names a new level and no bonus is about to
\* be persisted for a user with a positive bonus.
C10_Witness ==
  \E p \in Procs :
    LET u == req[p].userId IN
    /\ pc[p] = "ul_write"
    /\ req[p].levelId = Some(6)
    /\ req[p].extraRequests = None
    /\ file.users[u] # None
    /\ User(u).levelId # Some(6)
    /\ User(u).extraRequests = Some(MaxBonus)
    /\ Val(snap[p].users[u]).levelId = Some(6)
    /\ Val(snap[p].users[u]).extraRequests = Some(MaxBonus)

\* C4: the completion call of a request is issued only after consumeQuota
\* succeeded for that request, and a request answered 429 has issued no
\* call and leaves every session log as it was when the request arrived.
C4_NoCallWithoutQuota ==
  [][\A p \in Procs :
       /\ (call[p] = "none" /\ call'[p] # "none") => (pc[p] = "asm_read" /\ q[p].ok)
       /\ (pc[p] # "idle" /\ pc'[p] = "idle" /\ resp'[p].status = 429) =>
            /\ call'[p] = "none"
            /\ file'.sessions = atStart[p].sessions]_vars

\* Witness of C4: a request of a user with a session log was answered 429.
C4_Witness ==
  \E p \in Procs :
    /\ pc[p] = "idle"
    /\ resp[p].kind = "chat"
    /\ resp[p].status = 429
    /\ resp[p].details.reason = "quota_exhausted"
    /\ call[p] = "none"
    /\ file.sessions[req[p].userId] # <<>>
    /\ file.sessions = atStart[p].sessions

\* C5: once the completion call of a request has failed, the request is
\* answered 500, every session log is as it was when the request arrived,
\* and the unit consumeQuota took stays taken: count is one above, or the
\* bonus one below, what ensureUser left.
C5_FailureKeepsLogAndCharge ==
  \A p \in Procs :
    call[p] = "fail" =>
      LET u     == req[p].userId
          old   == atStart[p].users[u]
          fresh == old = None \/ DateChanged(Val(old), today)
          c0    == IF fresh THEN 0 ELSE Val(Val(old).usage).count
          e0    == IF old = None THEN Some(0) ELSE Val(old).extraRequests
      IN
      /\ pc[p] = "idle"
      /\ resp[p].status = 500
      /\ file.sessions = atStart[p].sessions
      /\ file.users[u] # None
      /\ IF UnboundedUser(u)
         THEN Val(User(u).usage).count = c0 /\ User(u).extraRequests = e0
         ELSE \/ Val(User(u).usage).count = c0 + 1 /\ User(u).extraRequests = e0
              \/ /\ Val(User(u).usage).count = c0
                 /\ e0 # None
                 /\ User(u).extraRequests = Some(Val(e0) - 1)

\* Witness of C5: the call failed for a request paid from the bonus, sent by
\* a user with a session log.
C5_Witness ==
  \E p \in Procs :
    LET u == req[p].userId IN
    /\ call[p] = "fail"
    /\ resp[p].status = 500
    /\ file.sessions[u] # <<>>
    /\ atStart[p].users[u] # None
    /\ Val(atStart[p].users[u]).extraRequests = Some(MaxBonus)
    /\ User(u).extraRequests = Some(MaxBonus - 1)

\* The last k entries of a, in their order.
LastOf(a, k) ==
  LET n == Min(Len(a), k) IN [i \in 1..n |-> a[Len(a) - n + i]]

\* C6: every session log has at most 12 entries and equals the 12 entries
\* persisted last, in their order.
C6_LogIsLastTwelve ==
  \A u \in UserIds :
    /\ Len(file.sessions[u]) <= MAX_SESSION_MSGS
    /\ file.sessions[u] = LastOf(appended[u], MAX_SESSION_MSGS)

\* Witness of C6: more than 12 entries were appended and the oldest one,
\* which differs from the oldest one kept, is gone.
C6_Witness ==
  \E u \in UserIds :
    /\ Len(appended[u]) > MAX_SESSION_MSGS + 1
    /\ Len(file.sessions[u]) = MAX_SESSION_MSGS
    /\ appended[u][1] # file.sessions[u][1]
    /\ file.sessions[u][1] # file.sessions[u][2]

NumOk(s) == Cardinality({i \in 1..Len(s) : s[i].q.ok})

AllIdle == \A p \in Procs : pc[p] = "idle"

\* C7: a user starting on the default allowance of 5 with bonus 0, whose
\* accepted requests all got a completion: requests 1..5 are answered 200
\* with remaining 4, 3, 2, 1, 0, request 6 is answered 429 with
\* quota_exhausted, and the log holds the exchanges in the order sent, user
\* message then reply, 10 entries after the 5 successes.
C7_EndToEnd ==
  \A u \in UserIds :
    LET s == streak[u]
        h == file.sessions[u]
    IN
    (/\ s # <<>>
     /\ s[1].allowed = StarterPerDay
     /\ s[1].extra = Some(0)
     /\ AllIdle
     /\ Len(appended[u]) = 2 * NumOk(s)) =>
      /\ \A i \in 1..Len(s) :
           /\ i <= StarterPerDay =>
                s[i].q.ok /\ s[i].q.remaining = Some(Fin(StarterPerDay - i))
           /\ i > StarterPerDay => ~s[i].q.ok
      /\ h = appended[u]
      /\ Len(h) = 2 * Min(Len(s), StarterPerDay)
      /\ \A j \in 1..Len(h) :
           IF j % 2 = 1 THEN h[j] = Entry("user", "hi")
           ELSE h[j].role = "assistant" /\ h[j].content \in {"re", PLACEHOLDER}
      /\ \A p \in Procs :
           (resp[p].kind = "chat" /\ req[p].userId = u /\ resp[p].status \in {200, 429}) =>
             IF Len(s) <= StarterPerDay
             THEN /\ resp[p].status = 200
                  /\ resp[p].remaining = Some(Fin(StarterPerDay - Len(s)))
                  /\ resp[p].reply = Some(h[Len(h)].content)
             ELSE /\ resp[p].status = 429
                  /\ resp[p].details.reason = "quota_exhausted"

\* Witness of C7: five exchanges are on the log and the sixth request was
\* answered 429.
C7_Witness ==
  \E u \in UserIds, p \in Procs :
    /\ AllIdle
    /\ Len(streak[u]) = StarterPerDay + 1
    /\ streak[u][1].extra = Some(0)
    /\ streak[u][1].allowed = StarterPerDay
    /\ Len(appended[u]) = 2 * StarterPerDay
    /\ Len(file.sessions[u]) = 2 * StarterPerDay
    /\ req[p].userId = u
    /\ resp[p].kind = "chat"
    /\ resp[p].status = 429

\* C9: a chat request with a missing or empty message never gets past the
\* message check, and the step that answers it 400 leaves data.json as it
\* was: no user record, count or bonus changes.
C9_InvalidMessageTouchesNothing ==
  [][\A p \in Procs :
       /\ (req'[p].kind = "chat" /\ pc'[p] # "idle") =>
            (req'[p].message # None /\ req'[p].message # Some(""))
       /\ (pc[p] = "idle" /\ resp'[p].kind = "chat" /\ resp'[p].status = 400) =>
            (pc'[p] = "idle" /\ file' = file)]_vars

\* Witness of C9: a request was answered 400 and its user is still not on
\* file.
C9_Witness ==
  \E p \in Procs :
    /\ pc[p] = "idle"
    /\ resp[p].kind = "chat"
    /\ resp[p].status = 400
    /\ resp[p].error = "message fehlt"
    /\ file.users[req[p].userId] = None
    /\ file = atStart[p]

\* A bulk reset (admin endpoint or cron sweep) starts in slot p in this step.
ResetStarts(p) == pc[p] = "idle" /\ pc'[p] = "ru_write"

\* C11: the bulk reset computes usage {today, 0} for every user on file, and
\* its write stores exactly that usage while every user's level and bonus
\* balance, the set of users on file and every session log stay as they
\* were.
C11_ResetOnlyUsage ==
  [][\A p \in Procs :
       /\ ResetStarts(p) =>
            \A u \in UserIds :
              file.users[u] # None =>
                /\ snap'[p].users[u] # None
                /\ Val(snap'[p].users[u]).usage = Some([date |-> today, count |-> 0])
       /\ (pc[p] = "ru_write" /\ pc'[p] # "ru_write") =>
            /\ file'.sessions = file.sessions
            /\ \A u \in UserIds :
                 IF file.users[u] = None THEN file'.users[u] = None
                 ELSE /\ file'.users[u] # None
                      /\ Val(file'.users[u]).usage = Val(snap[p].users[u]).usage
                      /\ Val(Val(file'.users[u]).usage).count = 0
                      /\ Val(file'.users[u]).levelId = User(u).levelId
                      /\ Val(file'.users[u]).extraRequests = User(u).extraRequests]_vars

\* Witness of C11: a bulk reset has zeroed the count of bob, who had used
\* requests and whom no request addresses, on a later day; bob's level, bonus
\* and log are those of the initial file.
C11_Witness ==
  \E p \in Procs :
    /\ pc[p] = "idle"
    /\ resp[p].kind \in {"resetUsage", "cron"}
    /\ resp[p].status = 200
    /\ User("bob").usage = Some([date |-> MaxDay, count |-> 0])
    /\ User("bob").levelId = BobUser.levelId
    /\ User("bob").extraRequests = BobUser.extraRequests
    /\ file.sessions["bob"] = InitData.sessions["bob"]
    /\ file.users["guest"] # None
    /\ User("guest").extraRequests = Some(MaxBonus)

\* C12: every 429 answer to a chat request carries, in its details, a
\* reason and a remaining count of 0.
C12_RefusalCarriesRemaining ==
  \A p \in Procs :
    (resp[p].kind = "chat" /\ resp[p].status = 429) =>
      /\ resp[p].details.reason = "quota_exhausted"
      /\ resp[p].details.remaining = Some(Fin(0))

WriteStages == {"eu_write", "cq_write", "ps_write", "ps1_write", "ps2_write", "ul_write", "ru_write"}

\* Slot p's store operation writes data.json in this step.
Writes(p) == pc[p] \in WriteStages /\ pc'[p] # pc[p] /\ file' = snap[p]

\* What the store operation slot p is about to commit yields when it is run
\* as a whole on the data d (for the operations that read the clock: on one
\* of the days).
SerialResults(p, d) ==
  LET u == req[p].userId IN
  CASE pc[p] = "eu_write" -> {EnsureUserData(d, u, day).data : day \in Days}
    [] pc[p] = "cq_write" -> {ConsumeQuotaData(d, u).data}
    [] pc[p] \in {"ps_write", "ps1_write", "ps2_write"} ->
         {PushSessionData(d, u, PushRole(p), PushContent(p))}
    [] pc[p] = "ul_write" -> {UpdateLevelData(d, u, req[p].levelId, req[p].extraRequests)}
    [] pc[p] = "ru_write" -> {ResetUsageData(d, day) : day \in Days}
    [] OTHER -> {d}

\* C13: store operations are atomic with respect to one another: the write
\* of every operation stores what that operation yields on the data.json it
\* replaces, so the file always is the result of the committed operations in
\* the order of their writes and no committed write is lost to a snapshot
\* read before it.
C13_StoreOpsAtomic ==
  [][\A p \in Procs : Writes(p) => file' \in SerialResults(p, file)]_vars

\* C14: the write of a bulk reset changes usage records only: every session
\* log, the set of users on file and every user's level and bonus balance
\* are, after the write, what the operations committed before it left.
C14_ResetLeavesOthersWrites ==
  [][\A p \in Procs :
       (pc[p] = "ru_write" /\ pc'[p] # "ru_write") =>
         /\ file'.sessions = file.sessions
         /\ \A u \in UserIds :
              /\ (file.users[u] = None) = (file'.users[u] = None)
              /\ file.users[u] # None =>
                   /\ Val(file'.users[u]).levelId = User(u).levelId
                   /\ Val(file'.users[u]).extraRequests = User(u).extraRequests]_vars

C16_DateIsTodayAtDecision ==
  [][\A p \in Procs :
       (pc[p] = "cq_read" /\ pc'[p] # "cq_read") =>
         LET u == req[p].userId IN
         /\ file.users[u] # None
         /\ User(u).usage # None
         /\ Val(User(u).usage).date = today]_vars

\* User u, if on file on a bounded level with a usage record, has a count of
\* at most the daily allowance of that level.
WithinAllowance(u) ==
  (/\ file.users[u] # None
   /\ User(u).usage # None
   /\ ~LevelOf(User(u)).requestsPerDay.inf)
  => Val(User(u).usage).count <= LevelOf(User(u)).requestsPerDay.n

\* C17 as stated: in every reachable state the count of every user on a
\* bounded level is at most the daily allowance of the user's current level.
C17_CountWithinAllowance == \A u \in UserIds : WithinAllowance(u)

\* C17 as amended: the same, for every user whom no updateLevel request has
\* moved to a level with a smaller allowance; in every interleaving of the
\* store operations.
C17_WithinUnlessLowered == \A u \in UserIds : ~lowered[u] => WithinAllowance(u)

\* Witness of C17: bob's count has reached the allowance of 20, the next
\* request was paid from the bonus and left the count there, and bob's level
\* was never lowered.
C17_Witness ==
  /\ ~lowered["bob"]
  /\ User("bob").levelId = Some(5)
  /\ Val(User("bob").usage).count = ClaimerPerDay
  /\ User("bob").extraRequests = Some(0)
  /\ \E p \in Procs :
       /\ req[p].userId = "bob"
       /\ resp[p].kind = "chat"
       /\ resp[p].status = 200
       /\ resp[p].remaining = Some(Fin(0))

\* C18: in every reachable state the bonus balance of every user on file is
\* a number, and it is not negative.
C18_BonusNonNegative ==
  \A u \in UserIds :
    file.users[u] # None =>
      /\ User(u).extraRequests # None
      /\ Val(User(u).extraRequests) >= 0

\* C20: with chat requests and history reads only, and the day unchanged, no
\* step takes a user's record off the file, lowers the count stored for the
\* current day or raises the bonus balance.
C20_ConsumedNeverRestored ==
  [][\A u \in UserIds :
       (/\ file.users[u] # None
        /\ User(u).usage # None
        /\ Val(User(u).usage).date = today
        /\ User(u).extraRequests # None)
       => /\ file'.users[u] # None
          /\ Val(file'.users[u]).usage # None
          /\ Val(Val(file'.users[u]).usage).count >= Val(User(u).usage).count
          /\ Val(file'.users[u]).extraRequests # None
          /\ Val(Val(file'.users[u]).extraRequests) <= Val(User(u).extraRequests)]_vars

\* The statuses a chat request is answered with: reply, InvalidRequest,
\* QuotaExceeded, server error.
ChatStatuses == {200, 400, 429, 500}

\* Slot p's chat request has no response while its handler runs and one
\* response of a chat status once it has returned.
OneResponse(p) ==
  /\ pc[p] # "idle" => resp[p] = NoResp
  /\ (pc[p] = "idle" /\ req[p].kind = "chat") =>
       (resp[p].kind = "chat" /\ resp[p].status \in ChatStatuses)

\* Slot p's request whose completion call failed or timed out was answered
\* with the server error and wrote nothing to the session log.
TimedOutWritesNothing(p) ==
  call[p] = "fail" =>
    /\ pc[p] = "idle"
    /\ resp[p] = ServerError("chat")
    /\ pushed[p] = <<>>

\* C19 as stated, its safety part: one response per chat request, a timed-out
\* request fails with the server error, and a timed-out request or one whose
\* caller has gone writes nothing to the session log.
C19_AbandonedWritesNothing ==
  \A p \in SeqProcs :
    /\ OneResponse(p)
    /\ TimedOutWritesNothing(p)
    /\ gone[p] => pushed[p] = <<>>

\* C19 as amended: every chat request in flight comes to return with one
\* response; a timed-out request fails with the server error and writes
\* nothing to the session log; a request whose caller has gone runs on like
\* any other, and when it is answered 200 it has written the user message
\* and the reply.
C19_TerminatesOnce ==
  /\ [](\A p \in SeqProcs :
          /\ OneResponse(p)
          /\ TimedOutWritesNothing(p)
          /\ (gone[p] /\ pc[p] = "idle") =>
               \/ resp[p] = ServerError("chat") /\ pushed[p] = <<>>
               \/ resp[p].status = 200 /\ pushed[p] = <<"user", "assistant">>)
  /\ \A p \in SeqProcs : (pc[p] # "idle") ~> (pc[p] = "idle")

\* Witness of C19: the caller has gone, the completion call then timed out,
\* and the request has returned with the server error and nothing written.
C19_Witness ==
  \E p \in SeqProcs :
    /\ gone[p]
    /\ call[p] = "fail"
    /\ pc[p] = "idle"
    /\ resp[p] = ServerError("chat")
    /\ pushed[p] = <<>>

====
